---------------------------- MODULE Spec2Model ----------------------------
(***************************************************************************)
(* graph-bridge: a graph held behind the Graph trait by one of two        *)
(* storages (edge list, adjacency matrix), drawn through DrawingApi and   *)
(* shown by one of two render backends (egui, iced).                      *)
(*                                                                         *)
(* The state is main's: the boxed graph, the position of main/draw, the   *)
(* DrawingApi under construction, and what the render backend was given.  *)
(* Vertex indices are 0-based as in the source; TLA+ sequences are        *)
(* 1-based, so index i of a Vec is element i + 1 of the sequence.         *)
(***************************************************************************)
EXTENDS Integers, Sequences, FiniteSets

\* Largest count given to with_dots_count (main gives MainDotsCount).
MaxCount == 2
\* Largest vertex index given to add_edge.
MaxIndex == 1
\* Longest sequence of add_edge calls before draw.
MaxCalls == 2

\* The count main gives to with_dots_count.
MainDotsCount == 10

GraphBackend == {"EdgeList", "Matrix"}
DrawBackend == {"Egui", "Iced"}

\* Coord, with x and y each a sample of gen_range(0.0..1.0): 0 stands for a
\* value in [0, 1/2), 1 for a value in [1/2, 1). draw_dot is followed for two
\* of the four coordinates it can return.
Coord == {[x |-> 0, y |-> 1], [x |-> 1, y |-> 0]}

Max(a, b) == IF a >= b THEN a ELSE b

\* Resize that drops what the vector held.
Resize_Cleared(v, newLen, fill) ==
    [i \in 1..newLen |-> fill]

\* Vec::resize / Vec::resize_with: truncate to newLen, or extend with fill.
Resize(v, newLen, fill) ==
    [i \in 1..newLen |-> IF i <= Len(v) THEN v[i] ELSE fill]

\* vec![elem; count]
VecOf(elem, count) == [i \in 1..count |-> elem]

(***************************************************************************)
(* mod edge_list                                                           *)
(***************************************************************************)
\* with_dots_count that leaves the vertex set empty.
EdgeListGraph_with_dots_count_Empty(count) ==
    [kind |-> "EdgeList", dots |-> {}, edges |-> <<>>]

EdgeListGraph_with_dots_count(count) ==
    [kind |-> "EdgeList", dots |-> 0..(count - 1), edges |-> <<>>]

EdgeListGraph_dot_count(g) == Cardinality(g.dots)

\* The sequence of (from, to) the callback is invoked with.
EdgeListGraph_for_each_edge(g) ==
    [i \in 1..Len(g.edges) |-> g.edges[i]]

\* add_edge that stores the pair with the smaller index first.
EdgeListGraph_add_edge_Ordered(g, from, to) ==
    [g EXCEPT !.dots = (@ \cup {from}) \cup {to},
              !.edges = Append(@, IF from <= to THEN <<from, to>> ELSE <<to, from>>)]

\* add_edge that records only `from` in the vertex set.
EdgeListGraph_add_edge_FromOnly(g, from, to) ==
    [g EXCEPT !.dots = @ \cup {from},
              !.edges = Append(@, <<from, to>>)]

EdgeListGraph_add_edge(g, from, to) ==
    [g EXCEPT !.dots = (@ \cup {from}) \cup {to},
              !.edges = Append(@, <<from, to>>)]

(***************************************************************************)
(* mod matrix                                                              *)
(***************************************************************************)
\* with_dots_count that allocates one row and column too many.
MatrixGraph_with_dots_count_OneMore(count) ==
    [kind |-> "Matrix", mtx |-> VecOf(VecOf(FALSE, count + 1), count + 1)]

MatrixGraph_with_dots_count(count) ==
    [kind |-> "Matrix", mtx |-> VecOf(VecOf(FALSE, count), count)]

MatrixGraph_dot_count(g) == Len(g.mtx)

\* add_edge that also sets the mirrored cell.
MatrixGraph_add_edge_Symmetric(g, from, to) ==
    LET min_req == Max(from, to)
        grown ==
            IF min_req >= Len(g.mtx)
            THEN LET rows == Resize(g.mtx, min_req + 1, VecOf(FALSE, min_req + 1))
                 IN  [i \in 1..Len(rows) |-> Resize(rows[i], min_req + 1, FALSE)]
            ELSE g.mtx
    IN  [g EXCEPT !.mtx = [grown EXCEPT ![from + 1][to + 1] = TRUE,
                                        ![to + 1][from + 1] = TRUE]]

\* add_edge that grows only when min_req is above the dimension.
MatrixGraph_add_edge_GrowsLate(g, from, to) ==
    LET min_req == Max(from, to)
        grown ==
            IF min_req > Len(g.mtx)
            THEN LET rows == Resize(g.mtx, min_req + 1, VecOf(FALSE, min_req + 1))
                 IN  [i \in 1..Len(rows) |-> Resize(rows[i], min_req + 1, FALSE)]
            ELSE g.mtx
    IN  [g EXCEPT !.mtx = [grown EXCEPT ![from + 1][to + 1] = TRUE]]

MatrixGraph_add_edge(g, from, to) ==
    LET min_req == Max(from, to)
        grown ==
            IF min_req >= Len(g.mtx)
            THEN LET rows == Resize(g.mtx, min_req + 1, VecOf(FALSE, min_req + 1))
                 IN  [i \in 1..Len(rows) |-> Resize(rows[i], min_req + 1, FALSE)]
            ELSE g.mtx
    IN  [g EXCEPT !.mtx = [grown EXCEPT ![from + 1][to + 1] = TRUE]]

\* A row of the whole matrix: (0..len).map(|to| (from, to))
FullRow(from, len) == [k \in 1..len |-> <<from, k - 1>>]

\* (from..len).map(|to| (from, to))
UpperRow(from, len) == [k \in 1..(len - from) |-> <<from, from + k - 1>>]

\* (0..len).flat_map(...), from the row `from` on.
RECURSIVE UpperTriangle(_, _)
UpperTriangle(from, len) ==
    IF from >= len THEN <<>>
    ELSE UpperRow(from, len) \o UpperTriangle(from + 1, len)

MtxAt(mtx, e) == mtx[e[1] + 1][e[2] + 1]

\* The sequence of (from, to) the callback is invoked with.
MatrixGraph_for_each_edge(g) ==
    LET Set(e) == MtxAt(g.mtx, e)
    IN  SelectSeq(UpperTriangle(0, Len(g.mtx)), Set)

(***************************************************************************)
(* trait Graph through Box<dyn DrawableGraph>                              *)
(***************************************************************************)
with_dots_count(backend, count) ==
    IF backend = "EdgeList"
    THEN EdgeListGraph_with_dots_count(count)
    ELSE MatrixGraph_with_dots_count(count)

dot_count(g) ==
    IF g.kind = "EdgeList" THEN EdgeListGraph_dot_count(g)
    ELSE MatrixGraph_dot_count(g)

for_each_edge(g) ==
    IF g.kind = "EdgeList" THEN EdgeListGraph_for_each_edge(g)
    ELSE MatrixGraph_for_each_edge(g)

add_edge(g, from, to) ==
    IF g.kind = "EdgeList" THEN EdgeListGraph_add_edge(g, from, to)
    ELSE MatrixGraph_add_edge(g, from, to)

(***************************************************************************)
(* gui.rs: DrawingApi                                                      *)
(***************************************************************************)
GraphicsHolder_default == [dots |-> <<>>, lines |-> <<>>]

draw_dot(holder, coord) == [holder EXCEPT !.dots = Append(@, coord)]

\* draw_edge that records the line backwards.
draw_edge_Swapped(holder, from, to) == [holder EXCEPT !.lines = Append(@, <<to, from>>)]

draw_edge(holder, from, to) == [holder EXCEPT !.lines = Append(@, <<from, to>>)]

\* What draw_with prints with eprintln! when the backend's run fails.
FailureReport(backend_type) ==
    IF backend_type = "Egui" THEN "Egui backend failed" ELSE "Iced backend failed"

\* An unwrap_or_else that drops the error without printing it.
unwrap_or_else_Silent(out, run_result, backend_type) == out

\* unwrap_or_else(|err| eprintln!(...)): Ok(()) passes, Err is printed.
unwrap_or_else(out, run_result, backend_type) ==
    IF run_result = "Err" THEN Append(out, FailureReport(backend_type)) ELSE out

(***************************************************************************)
(* State                                                                   *)
(***************************************************************************)
VARIABLES
    args,        \* Args: graph_backend, draw_backend
    graph,       \* the Box<dyn DrawableGraph> of main
    count,       \* the count with_dots_count was called with
    calls,       \* the add_edge calls made so far, in order
    pc,          \* "main", "dots", "edges", "draw_with", "returned", "panicked"
    dot_coords,  \* draw's dot_coords
    holder,      \* api.holder
    visited,     \* edges for_each_edge has passed to the callback so far
    shown,       \* the holders given to a render backend, in order
    run_result,  \* "None" before the backend ran, then "Ok" or "Err"
    stderr       \* lines printed with eprintln!

vars == <<args, graph, count, calls, pc, dot_coords, holder, visited, shown,
          run_result, stderr>>

Init ==
    /\ args \in [graph_backend : GraphBackend, draw_backend : DrawBackend]
    /\ count \in 0..MaxCount
    /\ graph = with_dots_count(args.graph_backend, count)
    /\ calls = <<>>
    /\ pc = "main"
    /\ dot_coords = <<>>
    /\ holder = GraphicsHolder_default
    /\ visited = 0
    /\ shown = <<>>
    /\ run_result = "None"
    /\ stderr = <<>>

\* main: graph.add_edge(from, to)
AddEdge(from, to) ==
    /\ pc = "main"
    /\ Len(calls) < MaxCalls
    /\ graph' = add_edge(graph, from, to)
    /\ calls' = Append(calls, <<from, to>>)
    /\ UNCHANGED <<args, count, pc, dot_coords, holder, visited, shown,
                   run_result, stderr>>

\* main: graph.draw(args.draw_backend); draw: DrawingApi::default()
Draw ==
    /\ pc = "main"
    /\ pc' = "dots"
    /\ holder' = GraphicsHolder_default
    /\ dot_coords' = <<>>
    /\ UNCHANGED <<args, graph, count, calls, visited, shown, run_result, stderr>>

\* draw: one step of (0..self.dot_count()).map(|_| api.draw_dot())
DrawDot(coord) ==
    /\ pc = "dots"
    /\ Len(dot_coords) < dot_count(graph)
    /\ holder' = draw_dot(holder, coord)
    /\ dot_coords' = Append(dot_coords, coord)
    /\ UNCHANGED <<args, graph, count, calls, pc, visited, shown, run_result, stderr>>

\* draw: .collect() is complete, for_each_edge begins
DotsCollected ==
    /\ pc = "dots"
    /\ Len(dot_coords) = dot_count(graph)
    /\ pc' = "edges"
    /\ visited' = 0
    /\ UNCHANGED <<args, graph, count, calls, dot_coords, holder, shown,
                   run_result, stderr>>

InRange(i) == i < Len(dot_coords)

\* draw: for_each_edge invokes |from, to| api.draw_edge(dot_coords[from], dot_coords[to])
DrawEdge ==
    /\ pc = "edges"
    /\ visited < Len(for_each_edge(graph))
    /\ LET e == for_each_edge(graph)[visited + 1]
           from == e[1]
           to == e[2]
       IN  IF InRange(from) /\ InRange(to)
           THEN /\ holder' = draw_edge(holder, dot_coords[from + 1], dot_coords[to + 1])
                /\ visited' = visited + 1
                /\ pc' = pc
           ELSE \* index out of bounds: the thread panics
                /\ pc' = "panicked"
                /\ UNCHANGED <<holder, visited>>
    /\ UNCHANGED <<args, graph, count, calls, dot_coords, shown, run_result, stderr>>

\* draw: for_each_edge has returned, api.draw_with(backend) is called
EdgesCollected ==
    /\ pc = "edges"
    /\ visited = Len(for_each_edge(graph))
    /\ pc' = "draw_with"
    /\ UNCHANGED <<args, graph, count, calls, dot_coords, holder, visited, shown,
                   run_result, stderr>>

\* draw_with: the backend takes self.holder, runs, and yields result
DrawWith(result) ==
    /\ pc = "draw_with"
    /\ shown' = Append(shown, holder)
    /\ run_result' = result
    /\ stderr' = unwrap_or_else(stderr, result, args.draw_backend)
    /\ pc' = "returned"
    /\ UNCHANGED <<args, graph, count, calls, dot_coords, holder, visited>>

Next ==
    \/ \E from \in 0..MaxIndex, to \in 0..MaxIndex : AddEdge(from, to)
    \/ Draw
    \/ \E coord \in Coord : DrawDot(coord)
    \/ DotsCollected
    \/ DrawEdge
    \/ EdgesCollected
    \/ \E result \in {"Ok", "Err"} : DrawWith(result)

Spec == Init /\ [][Next]_vars

(***************************************************************************)
(* Vocabulary of the properties                                            *)
(***************************************************************************)
\* The graph a storage holds after with_dots_count(n) and the calls cs.
RECURSIVE Replay(_, _, _)
Replay(backend, n, cs) ==
    IF cs = <<>> THEN with_dots_count(backend, n)
    ELSE LET last == cs[Len(cs)]
         IN  add_edge(Replay(backend, n, SubSeq(cs, 1, Len(cs) - 1)), last[1], last[2])

Range(s) == {s[i] : i \in DOMAIN s}

Endpoints(cs) == UNION {{cs[i][1], cs[i][2]} : i \in DOMAIN cs}

Occurrences(s, e) == Cardinality({i \in DOMAIN s : s[i] = e})

\* 1 + the largest index passed to add_edge so far (0 when there was none).
PastMaxIndex(cs) ==
    IF cs = <<>> THEN 0
    ELSE 1 + (CHOOSE m \in Endpoints(cs) : \A k \in Endpoints(cs) : k <= m)

\* Cell (r, c) of a matrix exists / is true, in the source's 0-based indices.
HasCell(mtx, r, c) == r < Len(mtx) /\ c < Len(mtx[r + 1])

CellTrue(mtx, r, c) == HasCell(mtx, r, c) /\ mtx[r + 1][c + 1]

IsSquare(mtx) == \A i \in DOMAIN mtx : Len(mtx[i]) = Len(mtx)

\* Lexicographic order on (from, to).
PairLess(a, b) == a[1] < b[1] \/ (a[1] = b[1] /\ a[2] < b[2])

\* The calls of main.
MainCalls == << <<0, 1>>, <<1, 2>>, <<2, 0>>, <<0, 4>> >>

MainEdgeList == Replay("EdgeList", MainDotsCount, MainCalls)

MainMatrix == Replay("Matrix", MainDotsCount, MainCalls)

\* Some stored edge has an endpoint that is no index of dot_coords.
HoldsOutOfRange(g) ==
    \E e \in Range(for_each_edge(g)) : e[1] >= dot_count(g) \/ e[2] >= dot_count(g)

\* The count given at construction does not cover an index passed to add_edge.
UnderSized == \E k \in Endpoints(calls) : k >= count

\* The k-th line is made of the coordinates of the k-th enumerated edge.
LineMatches(h, coords, g, k) ==
    LET e == for_each_edge(g)[k]
    IN  h.lines[k] = <<coords[e[1] + 1], coords[e[2] + 1]>>

(***************************************************************************)
(* Properties                                                              *)
(***************************************************************************)

\* C1: on an edge-list graph for_each_edge passes exactly the add_edge calls
\* made so far to the callback, once each, in call order and in their
\* original orientation (duplicates and self-loops kept); main's four calls
\* on with_dots_count(10) are enumerated as they were made.
C1_EdgeListEnumeratesCalls ==
    /\ graph.kind = "EdgeList" =>
        /\ for_each_edge(graph) = calls
        /\ \A e \in Range(calls) : Occurrences(for_each_edge(graph), e) = Occurrences(calls, e)
    /\ for_each_edge(MainEdgeList) = MainCalls

\* A duplicate edge with from > to followed by nothing else: both copies are
\* there.
C1_Witness ==
    /\ graph.kind = "EdgeList"
    /\ Len(calls) = 2
    /\ calls[1] = <<1, 0>>
    /\ calls[2] = <<1, 0>>

\* C2: on a matrix graph for_each_edge passes (from, to) exactly once when
\* from <= to and add_edge(from, to) was called at least once, and never
\* otherwise: no pair with from > to, and no (to, from) for an added
\* (from, to) unless (to, from) was added itself. main's calls on
\* with_dots_count(10) enumerate (0,1), (1,2), (0,4) and not (2,0).
C2_MatrixEnumeratesUpperTriangle ==
    /\ graph.kind = "Matrix" =>
        LET en == for_each_edge(graph)
            top == Max(dot_count(graph), MaxIndex + 1) - 1
        IN  /\ \A from \in 0..top, to \in 0..top :
                Occurrences(en, <<from, to>>) =
                    IF from <= to /\ <<from, to>> \in Range(calls) THEN 1 ELSE 0
            /\ \A e \in Range(en) : e[1] <= e[2] /\ e \in Range(calls)
    /\ for_each_edge(MainMatrix) = << <<0, 1>>, <<0, 4>>, <<1, 2>> >>
    /\ dot_count(MainMatrix) = MainDotsCount

\* (1,0) was added and then (0,0) twice: (0,0) is enumerated once, (0,1) and
\* (1,0) are not.
C2_Witness ==
    /\ graph.kind = "Matrix"
    /\ <<1, 0>> \in Range(calls)
    /\ <<0, 1>> \notin Range(calls)
    /\ Len(calls) = 2
    /\ Len(for_each_edge(graph)) = 1

\* C3: a matrix add_edge(from, to) with max(from, to) >= the dimension d
\* makes the dimension max(from, to) + 1, keeps every true cell true at its
\* place, leaves every new cell but (from, to) false and sets (from, to);
\* with max(from, to) < d the dimension stays d.
C3_MatrixGrowth ==
    [][(graph.kind = "Matrix" /\ calls' # calls) =>
        LET last == calls'[Len(calls')]
            from == last[1]
            to == last[2]
            m == Max(from, to)
            d == dot_count(graph)
        IN  /\ m >= d =>
                /\ dot_count(graph') = m + 1
                /\ IsSquare(graph'.mtx)
                /\ \A r \in 0..m, c \in 0..m :
                    /\ CellTrue(graph.mtx, r, c) => CellTrue(graph'.mtx, r, c)
                    /\ (~HasCell(graph.mtx, r, c) /\ <<r, c>> # <<from, to>>)
                            => ~CellTrue(graph'.mtx, r, c)
                /\ CellTrue(graph'.mtx, from, to)
            /\ m < d => dot_count(graph') = d
    ]_vars

\* The matrix has grown from 1 x 1 to 2 x 2 with cell (0,0) set before.
C3_Witness ==
    /\ graph.kind = "Matrix"
    /\ count = 1
    /\ calls = << <<0, 0>>, <<1, 0>> >>
    /\ dot_count(graph) = 2

\* C4: a graph of either storage built by with_dots_count(backend, n), with
\* no add_edge call yet, has dot_count() = n and enumerates no edge.
C4_FreshGraph ==
    calls = <<>> =>
        /\ dot_count(graph) = count
        /\ for_each_edge(graph) = <<>>

C4_Witness ==
    /\ calls = <<>>
    /\ count = MaxCount
    /\ graph.kind = "Matrix"
    /\ pc = "main"

\* C5 as stated: once add_edge was called on a matrix graph, dot_count() is
\* 1 + the largest index ever passed to add_edge.
C5_Original ==
    (graph.kind = "Matrix" /\ calls # <<>>) =>
        dot_count(graph) = PastMaxIndex(calls)

\* C5 amended: on a matrix graph dot_count() is the matrix dimension, which
\* is the larger of the count given at construction and 1 + the largest
\* index ever passed to add_edge.
C5_MatrixDimension ==
    graph.kind = "Matrix" =>
        /\ dot_count(graph) = Len(graph.mtx)
        /\ dot_count(graph) = Max(count, PastMaxIndex(calls))

\* Grown past the count of construction.
C5_Witness ==
    /\ graph.kind = "Matrix"
    /\ count = 1
    /\ calls # <<>>
    /\ dot_count(graph) = 2

\* C6: when every enumerated endpoint is < dot_count(), draw generates the
\* dot_count() coordinates before it records any line, records the lines in
\* enumeration order, the k-th from the coordinates of the k-th edge's from
\* and to, and gives the holder to the render backend only when all dots and
\* all lines are in it.
C6_DrawCollects ==
    ~HoldsOutOfRange(graph) =>
        /\ holder.dots = dot_coords
        /\ pc = "dots" => holder.lines = <<>> /\ Len(dot_coords) <= dot_count(graph)
        /\ pc \in {"edges", "draw_with", "returned"} =>
            /\ Len(holder.dots) = dot_count(graph)
            /\ Len(holder.lines) = visited
            /\ \A k \in 1..visited : LineMatches(holder, dot_coords, graph, k)
        /\ pc \in {"draw_with", "returned"} => visited = Len(for_each_edge(graph))
        /\ \A i \in DOMAIN shown :
            /\ shown[i] = holder
            /\ Len(shown[i].dots) = dot_count(graph)
            /\ Len(shown[i].lines) = Len(for_each_edge(graph))
            /\ \A k \in DOMAIN shown[i].lines : LineMatches(shown[i], dot_coords, graph, k)

\* Two dots at different coordinates, two different lines, shown.
C6_Witness ==
    /\ pc = "returned"
    /\ Len(shown) = 1
    /\ Len(shown[1].dots) = 2
    /\ shown[1].dots[1] # shown[1].dots[2]
    /\ Len(shown[1].lines) = 2
    /\ shown[1].lines[1][1] # shown[1].lines[1][2]
    /\ shown[1].lines[1] # shown[1].lines[2]

\* C7: when the backend's run fails, draw_with prints the failure for that
\* backend and returns; the backend is run once, and draw_with ends in
\* "returned" whether the run succeeded or failed.
C7_BackendFailureIsReported ==
    /\ run_result = "Err" =>
        /\ pc = "returned"
        /\ stderr = <<FailureReport(args.draw_backend)>>
    /\ run_result = "Ok" =>
        /\ pc = "returned"
        /\ stderr = <<>>
    /\ run_result = "None" => stderr = <<>> /\ shown = <<>> /\ pc # "returned"
    /\ run_result # "None" => Len(shown) = 1

C7_Witness ==
    /\ run_result = "Err"
    /\ args.draw_backend = "Iced"
    /\ pc = "returned"

\* C8 as stated: an edge-list graph whose construction count is below an
\* index passed to add_edge holds an endpoint >= dot_count(), and its draw
\* does not get to a snapshot.
C8_Original ==
    (graph.kind = "EdgeList" /\ UnderSized) =>
        /\ HoldsOutOfRange(graph)
        /\ pc \notin {"draw_with", "returned"}
        /\ shown = <<>>

\* C8 amended: an edge-list graph holds an endpoint >= dot_count() only if
\* its construction count is below an index passed to add_edge, and whenever
\* it holds one draw fails on the coordinate lookup and gives no snapshot to
\* a backend; a draw that fails does so for such an endpoint.
C8_OutOfRangeDrawFails ==
    graph.kind = "EdgeList" =>
        /\ HoldsOutOfRange(graph) =>
            /\ UnderSized
            /\ pc \notin {"draw_with", "returned"}
            /\ shown = <<>>
            /\ (pc = "edges" /\ visited = Len(for_each_edge(graph))) => FALSE
        /\ pc = "panicked" => HoldsOutOfRange(graph) /\ shown = <<>>

C8_Witness ==
    /\ graph.kind = "EdgeList"
    /\ HoldsOutOfRange(graph)
    /\ pc = "panicked"

\* C9: in an edge-list graph both endpoints of every stored edge are in the
\* vertex set, which is 0..n-1 united with every endpoint added, and
\* dot_count() is its size; a matrix graph is square, both indices of every
\* true cell are < dot_count(), and its draw never fails on a lookup.
C9_VertexSet ==
    /\ graph.kind = "EdgeList" =>
        /\ \A e \in Range(graph.edges) : e[1] \in graph.dots /\ e[2] \in graph.dots
        /\ graph.dots = (0..(count - 1)) \cup Endpoints(calls)
        /\ dot_count(graph) = Cardinality((0..(count - 1)) \cup Endpoints(calls))
    /\ graph.kind = "Matrix" =>
        /\ IsSquare(graph.mtx)
        /\ \A r \in 0..MaxIndex + MaxCount, c \in 0..MaxIndex + MaxCount :
            CellTrue(graph.mtx, r, c) => r < dot_count(graph) /\ c < dot_count(graph)
        /\ Endpoints(calls) \subseteq 0..(dot_count(graph) - 1)
        /\ ~HoldsOutOfRange(graph)
        /\ pc # "panicked"

\* An edge-list graph built with count 0 whose vertices all come from edges.
C9_Witness ==
    /\ graph.kind = "EdgeList"
    /\ count = 0
    /\ graph.dots = {0, 1}
    /\ Len(graph.edges) = 2

\* C10: for calls whose endpoints are all < n, made on an edge-list graph
\* and on a matrix graph both built with with_dots_count(n), both report
\* dot_count() = n, the matrix graph enumerates exactly the distinct
\* edge-list edges with from <= to, and it enumerates them in ascending
\* (from, to) order.
C10_VariantsAgree ==
    (\A k \in Endpoints(calls) : k < count) =>
        LET el == IF graph.kind = "EdgeList" THEN graph
                  ELSE Replay("EdgeList", count, calls)
            mx == IF graph.kind = "Matrix" THEN graph
                  ELSE Replay("Matrix", count, calls)
            men == for_each_edge(mx)
        IN  /\ dot_count(el) = count
            /\ dot_count(mx) = count
            /\ Range(men) = {e \in Range(for_each_edge(el)) : e[1] <= e[2]}
            /\ \A i \in DOMAIN men, j \in DOMAIN men : i < j => PairLess(men[i], men[j])

\* Inserted in descending order, with one edge the matrix does not show.
C10_Witness ==
    /\ graph.kind = "Matrix"
    /\ count = 2
    /\ calls = << <<1, 1>>, <<0, 1>> >>
    /\ for_each_edge(graph) = << <<0, 1>>, <<1, 1>> >>

=============================================================================
